---- MODULE Spec2Model ----
(***************************************************************************)
(* Ideenfinder: the workflow orchestrator (orchestrator.py), the parallel  *)
(* executor (utils/parallel_executor.py), the five agents (agents/*.py)    *)
(* and the CLI entry point (ideenfinder.py), as a state machine.           *)
(*                                                                         *)
(* The asyncio event loop is modelled by its FIFO ready queue: a task      *)
(* created by asyncio.gather is a queue entry, a task runs until it        *)
(* suspends or finishes, and a finished task schedules gather's            *)
(* done-callback behind whatever is already queued.                        *)
(*                                                                         *)
(* Spec is one run of the CLI, SpecPar a call of run_agents_parallel with  *)
(* agent functions that may suspend, SpecReuse a second run_ideation on    *)
(* the same orchestrator, SpecInt a run the user may interrupt, SpecPub a   *)
(* call of publish_to_archon (utils/archon_publisher.py) and SpecCli the   *)
(* start command from its guards to its exit status.                       *)
(*                                                                         *)
(* Texts are numbers: 0 is the empty string '', 1..NumTexts are the texts  *)
(* the text-generation provider may answer with.                           *)
(***************************************************************************)
EXTENDS Integers, Sequences, FiniteSets, TLC

\* ---------------------------------------------------------------- bounds
NumTexts == 2
MaxIdeaLen == 2
NAgents == 3
MaxAwaits == 1
MaxClock == 2
MaxTasks == 2
MaxRuns == 2
MaxDocs == 2

\* ------------------------------------------------------ program constants
TitleMax == 50

VARIABLES
    pc,             \* position of the coordinating coroutine / of the CLI
    idea_input,     \* the idea handed to run_ideation
    context,        \* IdeenfinderOrchestrator.context
    spec,           \* local `spec` of run_ideation
    outputs,        \* local `outputs` of run_ideation
    project_id,     \* local `project_id` of run_ideation
    returned,       \* what asyncio.run(run_ideation(...)) returned to start
    error,          \* the exception that reached the caller
    exit_code,      \* status the CLI process ends with
    archon_enabled, \* ArchonIntegration.enabled
    console,        \* the phase panels printed so far
    files,          \* output files written by _generate_outputs
    requests,       \* requests sent to Archon by auto_import_project
    agents,         \* the `agents` list given to run_agents_parallel
    awaits,         \* per agent function: suspension points still ahead
    ready,          \* the event loop's ready queue
    tstate,         \* per agent coroutine: new / ready / running / waiting / done / failed
    tresult,        \* per agent coroutine: the fragment it returned
    texc,           \* per agent coroutine: the exception it raised
    outer,          \* the future returned by asyncio.gather
    nfinished,      \* gather's count of finished children
    completed,      \* the tasks of the gather in the order they finished
    results,        \* `results` of run_agents_parallel
    seen,           \* per agent: the context its run() body read
    calls,          \* per agent: how often its function was invoked
    run_no,         \* calls of run_ideation on this orchestrator so far
    documents,      \* publish_to_archon: the documents to create
    tasks,          \* publish_to_archon: the tasks to create
    created_docs,   \* publish_to_archon: `created_docs`
    created_tasks,  \* publish_to_archon: `created_tasks`
    project_response, \* publish_to_archon: `project_response`
    cli              \* the start command: config.yaml found, --idea, the
                     \* answers to the two prompts, and what it printed

vars == <<pc, idea_input, context, spec, outputs, project_id, returned, error,
          exit_code, archon_enabled, console, files, requests, agents, awaits,
          ready, tstate, tresult, texc, outer, nfinished, completed, results,
          seen, calls, run_no, documents, tasks, created_docs, created_tasks,
          project_response, cli>>

pubvars == <<documents, tasks, created_docs, created_tasks, project_response>>

loopvars == <<ready, tstate, tresult, texc, outer, nfinished, completed>>

\* ----------------------------------------------------------------- values
None == "None"
Nothing == [none |-> TRUE]
Texts == 1 .. NumTexts
Chars == {"a", ".", " "}
Ideas == UNION {[1 .. n -> Chars] : n \in 1 .. MaxIdeaLen}
NonBlank(s) == \E i \in 1 .. Len(s) : s[i] # " "

GenerationFault == [type |-> "Exception", msg |-> "Claude API Error"]
SinkFault == [type |-> "OSError", msg |-> "open"]
MkdirFault == [type |-> "OSError", msg |-> "mkdir"]

\* the agents of the orchestrator, by BaseAgent.name
research_agent == "Research Agent"
feature_planner == "Feature Planner"
techstack_analyzer == "Techstack Analyzer"
reusability_scout == "Reusability Scout"
validator == "Validator"
Phase2Agents == <<feature_planner, techstack_analyzer, reusability_scout>>
AllAgents == {research_agent, feature_planner, techstack_analyzer,
              reusability_scout, validator}

\* names of the agent functions of a direct run_agents_parallel call
ParNames == <<"A1", "A2", "A3", "A4", "A5">>
ParAgents == {ParNames[i] : i \in 1 .. Len(ParNames)}
TaskNames == AllAgents \cup ParAgents

Range(s) == {s[i] : i \in 1 .. Len(s)}

\* ------------------------------------------------------------ the context
EmptyCtx == [k \in {} |-> 0]

\* dict.get(key, default)
Get(d, k, default) == IF k \in DOMAIN d THEN d[k] ELSE default

\* variant: the fragment replaces the context
UpdateReplace(d, frag) == frag

\* variant: a key that is already in the context keeps its value
UpdateKeepFirst(d, frag) ==
    [k \in DOMAIN d \cup DOMAIN frag |-> IF k \in DOMAIN d THEN d[k] ELSE frag[k]]

\* dict.update(fragment): the orchestrator's merge
Update(d, frag) ==
    [k \in DOMAIN d \cup DOMAIN frag |-> IF k \in DOMAIN frag THEN frag[k] ELSE d[k]]

\* d[key] = value
SetItem(d, k, v) == [x \in DOMAIN d \cup {k} |-> IF x = k THEN v ELSE d[x]]

\* ------------------------------------------------------------- the agents
\* what a lookup in Archon's knowledge base could do
LookupOutcomes == {"found", "error"}
LookupFault == [type |-> "Exception", msg |-> "Archon RAG query"]

\* variant: search_similar_projects without its except clause
search_similar_projects_unguarded(enabled, lookup) ==
    [raised |-> enabled /\ lookup = "error", value |-> <<>>]

\* ArchonRAG.search_similar_projects: [] when disabled; when enabled the
\* mock answers [] and the except clause turns any error into []
search_similar_projects(enabled, lookup) ==
    IF ~enabled THEN [raised |-> FALSE, value |-> <<>>]
    ELSE IF lookup = "error" THEN [raised |-> FALSE, value |-> <<>>]
    ELSE [raised |-> FALSE, value |-> <<>>]

\* the Reusability Scout's similar_projects: [] unless the lookup is enabled
SimilarProjects ==
    IF archon_enabled THEN search_similar_projects(TRUE, "found").value ELSE <<>>

\* the exception that ends an agent's run(): the provider's, or for the
\* Reusability Scout one that search_similar_projects let through
AgentFault(a) ==
    IF /\ a = reusability_scout
       /\ archon_enabled
       /\ \E l \in LookupOutcomes : search_similar_projects(TRUE, l).raised
    THEN LookupFault
    ELSE GenerationFault

\* variant: an agent leaves the status out of its fragment for one text
FragmentStatusByText(a, r) ==
    LET full == CASE a = research_agent ->
                       [research_report |-> r, agent_name |-> a, status |-> "completed"]
                  [] a = feature_planner ->
                       [features |-> r, agent_name |-> a, status |-> "completed"]
                  [] a = techstack_analyzer ->
                       [techstack |-> r, agent_name |-> a, status |-> "completed"]
                  [] a = reusability_scout ->
                       [reusable_assets |-> r, agent_name |-> a,
                        similar_projects |-> SimilarProjects, status |-> "completed"]
                  [] a = validator ->
                       [validation_report |-> r, agent_name |-> a, status |-> "completed"]
    IN  IF r = 1 THEN [k \in DOMAIN full \ {"status"} |-> full[k]] ELSE full

\* the fragment an agent's run() returns when the provider answered r
Fragment(a, r) ==
    CASE a = research_agent ->
           [research_report |-> r, agent_name |-> a, status |-> "completed"]
      [] a = feature_planner ->
           [features |-> r, agent_name |-> a, status |-> "completed"]
      [] a = techstack_analyzer ->
           [techstack |-> r, agent_name |-> a, status |-> "completed"]
      [] a = reusability_scout ->
           [reusable_assets |-> r, agent_name |-> a,
            similar_projects |-> SimilarProjects, status |-> "completed"]
      [] a = validator ->
           [validation_report |-> r, agent_name |-> a, status |-> "completed"]

NoTasks == [a \in TaskNames |-> "new"]
NoFragments == [a \in TaskNames |-> EmptyCtx]
NoExc == [a \in TaskNames |-> Nothing]
NoCalls == [a \in TaskNames |-> 0]
NotSeen == [a \in TaskNames |-> Nothing]
NoAwaits == [a \in TaskNames |-> 0]
PendingOuter == [state |-> "pending", value |-> Nothing]

\* the start command called with --idea and confirmed by the user
CliPassed(idea) ==
    [config |-> TRUE, option |-> idea, prompt |-> <<>>, confirm |-> TRUE,
     out |-> <<>>]

\* ------------------------------------------------------------------- Init
Init ==
    /\ pc = "start"
    /\ idea_input \in {s \in Ideas : NonBlank(s)}
    /\ archon_enabled \in BOOLEAN
    /\ context = EmptyCtx
    /\ spec = Nothing
    /\ outputs = EmptyCtx
    /\ project_id = None
    /\ returned = Nothing
    /\ error = Nothing
    /\ exit_code = None
    /\ console = <<>>
    /\ files = {}
    /\ requests = <<>>
    /\ agents = <<>>
    /\ awaits = NoAwaits
    /\ ready = <<>>
    /\ tstate = NoTasks
    /\ tresult = NoFragments
    /\ texc = NoExc
    /\ outer = PendingOuter
    /\ nfinished = 0
    /\ completed = <<>>
    /\ results = <<>>
    /\ seen = NotSeen
    /\ calls = NoCalls
    /\ run_no = 1
    /\ documents = <<>>
    /\ tasks = <<>>
    /\ created_docs = <<>>
    /\ created_tasks = <<>>
    /\ project_response = Nothing
    /\ cli = CliPassed(idea_input)

\* an exception leaves run_ideation: start's `except Exception` prints it
\* and exits with status 1
Fail(exc) ==
    /\ pc' = "failed"
    /\ error' = exc
    /\ exit_code' = 1

\* run_ideation up to Phase 1: output directory and Phase 0
start ==
    /\ pc = "start"
    /\ \/ /\ Fail(MkdirFault)
          /\ UNCHANGED context
       \/ /\ context' = SetItem(SetItem(context, "output_dir", "out"),
                                "idea_description", idea_input)
          /\ pc' = "phase1"
          /\ UNCHANGED <<error, exit_code>>
    /\ UNCHANGED <<pubvars, cli, run_no, idea_input, spec, outputs, project_id, returned,
                   archon_enabled, console, files, requests, agents, awaits,
                   results, seen, calls>>
    /\ UNCHANGED loopvars

\* Phase 1: the research agent, then the merge of its fragment
run_phase_1 ==
    /\ pc = "phase1"
    /\ console' = Append(console, "Phase 1")
    /\ seen' = [seen EXCEPT ![research_agent] = context]
    /\ calls' = [calls EXCEPT ![research_agent] = @ + 1]
    /\ \/ /\ tstate' = [tstate EXCEPT ![research_agent] = "failed"]
          /\ texc' = [texc EXCEPT ![research_agent] = GenerationFault]
          /\ Fail(GenerationFault)
          /\ UNCHANGED <<context, tresult>>
       \/ \E r \in Texts :
            /\ tstate' = [tstate EXCEPT ![research_agent] = "done"]
            /\ tresult' = [tresult EXCEPT ![research_agent] = Fragment(research_agent, r)]
            /\ context' = Update(context, tresult'[research_agent])
            /\ pc' = "phase2"
            /\ UNCHANGED <<error, exit_code, texc>>
    /\ UNCHANGED <<pubvars, cli, run_no, idea_input, spec, outputs, project_id, returned,
                   archon_enabled, files, requests, agents, awaits, results>>
    /\ UNCHANGED <<ready, outer, nfinished, completed>>

\* ------------------------------------------------- the parallel executor
\* results[agent_name] = result on a dict that keeps insertion order
DictSet(d, k, v) ==
    IF \E i \in 1 .. Len(d) : d[i][1] = k
    THEN [i \in 1 .. Len(d) |-> IF d[i][1] = k THEN <<k, v>> ELSE d[i]]
    ELSE Append(d, <<k, v>>)

DictKeys(d) == {d[i][1] : i \in 1 .. Len(d)}
DictGet(d, k) == d[CHOOSE i \in 1 .. Len(d) : d[i][1] = k][2]

RECURSIVE MapResults(_, _, _)
\* for (agent_name, _), result in zip(agents, agent_results)
MapResults(d, ags, vals) ==
    IF ags = <<>> \/ vals = <<>> THEN d
    ELSE MapResults(DictSet(d, Head(ags)[1], Head(vals)), Tail(ags), Tail(vals))

RECURSIVE MergeLastFirst(_, _)
\* variant: the fragments are merged last-registered first
MergeLastFirst(d, items) ==
    IF items = <<>> THEN d
    ELSE Update(MergeLastFirst(d, Tail(items)), Head(items)[2])

RECURSIVE MergeAll(_, _)
\* for agent_name, result in results.items(): self.context.update(result)
MergeAll(d, items) ==
    IF items = <<>> THEN d
    ELSE MergeAll(Update(d, Head(items)[2]), Tail(items))

Wakeup == <<"main", "main">>
LoopPcs == {"join", "returned", "raised"}

\* the thread is inside a blocking call of some task: the loop runs nothing
NoneRunning == \A a \in TaskNames : tstate[a] # "running"

\* tasks.append(agent_func()) for every agent, then asyncio.gather(*tasks):
\* every function is called once, every coroutine becomes a task whose first
\* step is queued in argument order, and the caller suspends on the gather
Launch(ags) ==
    /\ agents' = ags
    /\ calls' = [a \in TaskNames |->
                   calls[a] + Cardinality({i \in 1 .. Len(ags) : ags[i][1] = a})]
    /\ ready' = [i \in 1 .. Len(ags) |-> <<"step", ags[i][1]>>]
    /\ tstate' = [a \in TaskNames |->
                    IF \E i \in 1 .. Len(ags) : ags[i][1] = a THEN "ready" ELSE tstate[a]]
    /\ UNCHANGED <<tresult, texc>>
    /\ outer' = PendingOuter
    /\ nfinished' = 0
    /\ completed' = <<>>

\* variant: the children's results in the order the children finished
GatherValuesAsCompleted == [i \in 1 .. Len(completed) |-> tresult[completed[i]]]

\* the values asyncio.gather hands back: the children's results in the
\* order of the arguments
GatherValues == [i \in 1 .. Len(agents) |-> tresult[agents[i][1]]]

\* asyncio.gather's done-callback of child a (return_exceptions is False)
gather_done(a) ==
    /\ pc \in LoopPcs
    /\ NoneRunning
    /\ ready # <<>>
    /\ Head(ready) = <<"cb", a>>
    /\ nfinished' = nfinished + 1
    /\ IF outer.state # "pending"
       THEN /\ outer' = outer
            /\ ready' = Tail(ready)
       ELSE IF tstate[a] = "failed"
       THEN /\ outer' = [state |-> "exception", value |-> texc[a]]
            /\ ready' = Append(Tail(ready), Wakeup)
       ELSE IF nfinished' = Len(agents)
       THEN /\ outer' = [state |-> "result", value |-> GatherValues]
            /\ ready' = Append(Tail(ready), Wakeup)
       ELSE /\ outer' = outer
            /\ ready' = Tail(ready)
    /\ UNCHANGED <<tstate, tresult, texc, completed>>
    /\ UNCHANGED <<pc, pubvars, cli, run_no, idea_input, context, spec, outputs, project_id,
                   returned, error, exit_code, archon_enabled, console, files,
                   requests, agents, awaits, results, seen, calls>>

\* the lambdas of _run_phase_2: each calls its agent's run(self.context)
Phase2List == [i \in 1 .. Len(Phase2Agents) |-> <<Phase2Agents[i], "run">>]

\* Phase 2 up to the await of asyncio.gather
run_phase_2 ==
    /\ pc = "phase2"
    /\ console' = Append(console, "Phase 2")
    /\ Launch(Phase2List)
    /\ pc' = "join"
    /\ UNCHANGED <<pubvars, cli, run_no, idea_input, context, spec, outputs, project_id, returned,
                   error, exit_code, archon_enabled, files, requests, awaits,
                   results, seen>>

\* variant: run() stores a default for a key it reads in the context
agent_task_setdefault(a) ==
    /\ pc \in LoopPcs
    /\ a \in Range(Phase2Agents)
    /\ NoneRunning
    /\ ready # <<>>
    /\ Head(ready) = <<"step", a>>
    /\ context' = SetItem(context, "features", Get(context, "features", 0))
    /\ seen' = [seen EXCEPT ![a] = context']
    /\ tstate' = [tstate EXCEPT ![a] = "running"]
    /\ ready' = Tail(ready)
    /\ UNCHANGED <<tresult, texc, outer, nfinished, completed>>
    /\ UNCHANGED <<pc, pubvars, cli, run_no, idea_input, spec, outputs, project_id,
                   returned, error, exit_code, archon_enabled, console, files,
                   requests, agents, awaits, results, calls>>

\* one task of the gather starts: run() reads the context into its prompt
\* and execute calls send_message, a synchronous call that keeps the thread,
\* and with it the event loop, until the provider has answered
agent_task(a) ==
    /\ pc \in LoopPcs
    /\ a \in Range(Phase2Agents)
    /\ NoneRunning
    /\ ready # <<>>
    /\ Head(ready) = <<"step", a>>
    /\ seen' = [seen EXCEPT ![a] = context]
    /\ tstate' = [tstate EXCEPT ![a] = "running"]
    /\ ready' = Tail(ready)
    /\ UNCHANGED <<tresult, texc, outer, nfinished, completed>>
    /\ UNCHANGED <<pc, pubvars, cli, run_no, idea_input, context, spec, outputs, project_id,
                   returned, error, exit_code, archon_enabled, console, files,
                   requests, agents, awaits, results, calls>>

\* variant: the agent writes its fragment into the shared context itself
send_message_writes(a) ==
    /\ pc \in LoopPcs
    /\ a \in Range(Phase2Agents)
    /\ tstate[a] = "running"
    /\ \/ /\ tstate' = [tstate EXCEPT ![a] = "failed"]
          /\ texc' = [texc EXCEPT ![a] = AgentFault(a)]
          /\ UNCHANGED <<tresult, context>>
       \/ \E r \in Texts :
            /\ tstate' = [tstate EXCEPT ![a] = "done"]
            /\ tresult' = [tresult EXCEPT ![a] = Fragment(a, r)]
            /\ context' = Update(context, Fragment(a, r))
            /\ UNCHANGED texc
    /\ ready' = Append(ready, <<"cb", a>>)
    /\ completed' = Append(completed, a)
    /\ UNCHANGED <<outer, nfinished>>
    /\ UNCHANGED <<pc, pubvars, cli, run_no, idea_input, spec, outputs, project_id,
                   returned, error, exit_code, archon_enabled, console, files,
                   requests, agents, awaits, results, seen, calls>>

\* the blocking call of a running task returns or raises; run() has no
\* suspension point after it, so the task finishes in the same step and its
\* done-callback is scheduled
send_message(a) ==
    /\ pc \in LoopPcs
    /\ a \in Range(Phase2Agents)
    /\ tstate[a] = "running"
    /\ \/ /\ tstate' = [tstate EXCEPT ![a] = "failed"]
          /\ texc' = [texc EXCEPT ![a] = AgentFault(a)]
          /\ UNCHANGED tresult
       \/ \E r \in Texts :
            /\ tstate' = [tstate EXCEPT ![a] = "done"]
            /\ tresult' = [tresult EXCEPT ![a] = Fragment(a, r)]
            /\ UNCHANGED texc
    /\ ready' = Append(ready, <<"cb", a>>)
    /\ completed' = Append(completed, a)
    /\ UNCHANGED <<outer, nfinished>>
    /\ UNCHANGED <<pc, pubvars, cli, run_no, idea_input, context, spec, outputs, project_id,
                   returned, error, exit_code, archon_enabled, console, files,
                   requests, agents, awaits, results, seen, calls>>

\* variant: the results are mapped but never merged into the context
phase_2_join_nomerge ==
    /\ pc = "join"
    /\ NoneRunning
    /\ ready # <<>>
    /\ Head(ready) = Wakeup
    /\ ready' = Tail(ready)
    /\ IF outer.state = "exception"
       THEN /\ Fail(outer.value)
            /\ UNCHANGED <<results, context>>
       ELSE /\ results' = MapResults(<<>>, agents, outer.value)
            /\ context' = context
            /\ pc' = "consolidate"
            /\ UNCHANGED <<error, exit_code>>
    /\ UNCHANGED <<tstate, tresult, texc, outer, nfinished, completed>>
    /\ UNCHANGED <<pubvars, cli, run_no, idea_input, spec, outputs, project_id, returned,
                   archon_enabled, console, files, requests, agents, awaits,
                   seen, calls>>

\* variant: a failed agent is only a warning and the workflow goes on
phase_2_join_degraded ==
    /\ pc = "join"
    /\ NoneRunning
    /\ ready # <<>>
    /\ Head(ready) = Wakeup
    /\ ready' = Tail(ready)
    /\ IF outer.state = "exception"
       THEN /\ pc' = "consolidate"
            /\ UNCHANGED <<results, context, error, exit_code>>
       ELSE /\ results' = MapResults(<<>>, agents, outer.value)
            /\ context' = MergeAll(context, results')
            /\ pc' = "consolidate"
            /\ UNCHANGED <<error, exit_code>>
    /\ UNCHANGED <<tstate, tresult, texc, outer, nfinished, completed>>
    /\ UNCHANGED <<pubvars, cli, run_no, idea_input, spec, outputs, project_id, returned,
                   archon_enabled, console, files, requests, agents, awaits,
                   seen, calls>>

\* variant: when the gather raised, the fragments of the agents that
\* succeeded are merged before the exception leaves run_ideation
phase_2_join_partial ==
    /\ pc = "join"
    /\ NoneRunning
    /\ ready # <<>>
    /\ Head(ready) = Wakeup
    /\ ready' = Tail(ready)
    /\ IF outer.state = "exception"
       THEN /\ Fail(outer.value)
            /\ context' = MergeAll(context,
                  SelectSeq([i \in 1 .. Len(agents) |->
                                <<agents[i][1], tresult[agents[i][1]]>>],
                            LAMBDA e : tstate[e[1]] = "done"))
            /\ UNCHANGED results
       ELSE /\ results' = MapResults(<<>>, agents, outer.value)
            /\ context' = MergeAll(context, results')
            /\ pc' = "consolidate"
            /\ UNCHANGED <<error, exit_code>>
    /\ UNCHANGED <<tstate, tresult, texc, outer, nfinished, completed>>
    /\ UNCHANGED <<pubvars, cli, run_no, idea_input, spec, outputs, project_id, returned,
                   archon_enabled, console, files, requests, agents, awaits,
                   seen, calls>>

\* the gather is over and the coordinating coroutine resumes: either the
\* exception leaves run_agents_parallel, _run_phase_2 and run_ideation, or
\* the results are mapped and merged into the context
phase_2_join ==
    /\ pc = "join"
    /\ NoneRunning
    /\ ready # <<>>
    /\ Head(ready) = Wakeup
    /\ ready' = Tail(ready)
    /\ IF outer.state = "exception"
       THEN /\ Fail(outer.value)
            /\ UNCHANGED <<results, context>>
       ELSE /\ results' = MapResults(<<>>, agents, outer.value)
            /\ context' = MergeAll(context, results')
            /\ pc' = "consolidate"
            /\ UNCHANGED <<error, exit_code>>
    /\ UNCHANGED <<tstate, tresult, texc, outer, nfinished, completed>>
    /\ UNCHANGED <<pubvars, cli, run_no, idea_input, spec, outputs, project_id, returned,
                   archon_enabled, console, files, requests, agents, awaits,
                   seen, calls>>

\* ----------------------------------------------------- the specification
Min(a, b) == IF a < b THEN a ELSE b

\* str.strip() on a sequence of characters
Strip(s) ==
    LET solid == {i \in 1 .. Len(s) : s[i] # " "}
    IN  IF solid = {} THEN <<>>
        ELSE SubSeq(s, CHOOSE i \in solid : \A j \in solid : i <= j,
                       CHOOSE i \in solid : \A j \in solid : j <= i)

\* _extract_title: the first sentence, or the first 50 characters
extract_title(ctx) ==
    LET idea == ctx["idea_description"]
        dots == {i \in 1 .. Len(idea) : idea[i] = "."}
    IN  IF dots # {}
        THEN Strip(SubSeq(idea, 1, (CHOOSE i \in dots : \A j \in dots : i <= j) - 1))
        ELSE Strip(SubSeq(idea, 1, Min(Len(idea), TitleMax)))

\* variant: the features section is filled from the techstack key
SpecificationSwapped(ctx, now) ==
    [version |-> "1.0",
     generated_at |-> now,
     project |-> [title |-> extract_title(ctx),
                  description |-> ctx["idea_description"],
                  type |-> "web-app"],
     research |-> [report |-> Get(ctx, "research_report", 0)],
     features |-> [plan |-> Get(ctx, "techstack", 0)],
     techstack |-> [recommendations |-> Get(ctx, "techstack", 0)],
     reusability |-> [assets |-> Get(ctx, "reusable_assets", 0),
                      similar_projects |-> Get(ctx, "similar_projects", <<>>)],
     validation |-> [report |-> Get(ctx, "validation_report", 0)]]

\* the dict _generate_specification builds at time `now`
Specification(ctx, now) ==
    [version |-> "1.0",
     generated_at |-> now,
     project |-> [title |-> extract_title(ctx),
                  description |-> ctx["idea_description"],
                  type |-> "web-app"],
     research |-> [report |-> Get(ctx, "research_report", 0)],
     features |-> [plan |-> Get(ctx, "features", 0)],
     techstack |-> [recommendations |-> Get(ctx, "techstack", 0)],
     reusability |-> [assets |-> Get(ctx, "reusable_assets", 0),
                      similar_projects |-> Get(ctx, "similar_projects", <<>>)],
     validation |-> [report |-> Get(ctx, "validation_report", 0)]]

\* Phase 3: consolidation
generate_specification ==
    /\ pc = "consolidate"
    /\ console' = Append(console, "Phase 3")
    /\ \E now \in 1 .. MaxClock :
         /\ spec' = Specification(context, now)
         /\ context' = SetItem(context, "specification", spec')
    /\ pc' = "validate"
    /\ UNCHANGED <<pubvars, cli, run_no, idea_input, outputs, project_id, returned, error, exit_code,
                   archon_enabled, files, requests, agents, awaits, results,
                   seen, calls>>
    /\ UNCHANGED loopvars

\* variant: the Specification is rebuilt once the validator's fragment is
\* merged
run_phase_4_rebuilds ==
    /\ pc = "validate"
    /\ console' = Append(console, "Phase 4")
    /\ seen' = [seen EXCEPT ![validator] = context]
    /\ calls' = [calls EXCEPT ![validator] = @ + 1]
    /\ \/ /\ tstate' = [tstate EXCEPT ![validator] = "failed"]
          /\ texc' = [texc EXCEPT ![validator] = GenerationFault]
          /\ Fail(GenerationFault)
          /\ UNCHANGED <<context, tresult, spec>>
       \/ \E r \in Texts :
            /\ tstate' = [tstate EXCEPT ![validator] = "done"]
            /\ tresult' = [tresult EXCEPT ![validator] = Fragment(validator, r)]
            /\ context' = Update(context, tresult'[validator])
            /\ spec' = Specification(context', spec.generated_at)
            /\ pc' = "outputs"
            /\ UNCHANGED <<error, exit_code, texc>>
    /\ UNCHANGED <<pubvars, cli, run_no, idea_input, outputs, project_id, returned,
                   archon_enabled, files, requests, agents, awaits, results>>
    /\ UNCHANGED <<ready, outer, nfinished, completed>>

\* Phase 4: the validator, then the merge of its fragment
run_phase_4 ==
    /\ pc = "validate"
    /\ console' = Append(console, "Phase 4")
    /\ seen' = [seen EXCEPT ![validator] = context]
    /\ calls' = [calls EXCEPT ![validator] = @ + 1]
    /\ \/ /\ tstate' = [tstate EXCEPT ![validator] = "failed"]
          /\ texc' = [texc EXCEPT ![validator] = GenerationFault]
          /\ Fail(GenerationFault)
          /\ UNCHANGED <<context, tresult>>
       \/ \E r \in Texts :
            /\ tstate' = [tstate EXCEPT ![validator] = "done"]
            /\ tresult' = [tresult EXCEPT ![validator] = Fragment(validator, r)]
            /\ context' = Update(context, tresult'[validator])
            /\ pc' = "outputs"
            /\ UNCHANGED <<error, exit_code, texc>>
    /\ UNCHANGED <<pubvars, cli, run_no, idea_input, spec, outputs, project_id, returned,
                   archon_enabled, files, requests, agents, awaits, results>>
    /\ UNCHANGED <<ready, outer, nfinished, completed>>

\* ------------------------------------------------------------- the outputs
generate_markdown(sp) ==
    [title |-> sp.project.title, generated |-> sp.generated_at,
     overview |-> sp.project.description, research |-> sp.research.report,
     features |-> sp.features.plan, techstack |-> sp.techstack.recommendations,
     assets |-> sp.reusability.assets, validation |-> sp.validation.report]

generate_archon_import(sp) ==
    [version |-> "1.0",
     project |-> [title |-> sp.project.title,
                  description |-> sp.project.description],
     documents |-> <<[title |-> "Project Specification",
                      document_type |-> "spec",
                      content |-> [research |-> sp.research.report,
                                   features |-> sp.features.plan,
                                   techstack |-> sp.techstack.recommendations]]>>]

\* the three files of _generate_outputs, in the order they are written
OutputFiles(sp) ==
    <<[key |-> "json", path |-> "project-spec.json", content |-> <<"json", sp>>],
      [key |-> "markdown", path |-> "project-spec.md",
       content |-> <<"markdown", generate_markdown(sp)>>],
      [key |-> "archon", path |-> "archon-import.json",
       content |-> <<"json", generate_archon_import(sp)>>]>>

\* Phase 5: the output files; an open() or write that fails after n files
\* raises out of run_ideation
generate_outputs ==
    /\ pc = "outputs"
    /\ console' = Append(console, "Phase 5")
    /\ \E n \in 0 .. Len(OutputFiles(spec)) :
         /\ files' = {OutputFiles(spec)[i] : i \in 1 .. n}
         /\ IF n < Len(OutputFiles(spec))
            THEN /\ Fail(SinkFault)
                 /\ UNCHANGED outputs
            ELSE /\ outputs' = [json |-> "project-spec.json",
                                markdown |-> "project-spec.md",
                                archon |-> "archon-import.json"]
                 /\ pc' = "import"
                 /\ UNCHANGED <<error, exit_code>>
    /\ UNCHANGED <<pubvars, cli, run_no, idea_input, context, spec, project_id, returned,
                   archon_enabled, requests, agents, awaits, results, seen,
                   calls>>
    /\ UNCHANGED loopvars

\* ----------------------------------------------------------- auto-import
\* what Archon may do with one request: answer 201, answer another status,
\* or the request raises (connection error, bad payload)
Statuses == {"201", "500", "raise"}
ArchonFault == [type |-> "ClientError", msg |-> "Archon request"]

\* the requests of auto_import_project with n extracted tasks, in order
ImportPlan(n) == <<"project", "docs">> \o [i \in 1 .. n |-> "tasks"]

\* the first request that raises, 0 when none does
FirstRaise(sts) ==
    IF \E i \in 1 .. Len(sts) : sts[i] = "raise"
    THEN CHOOSE i \in 1 .. Len(sts) :
            sts[i] = "raise" /\ \A j \in 1 .. i - 1 : sts[j] # "raise"
    ELSE 0

\* _create_project: data.get('id') of a 201 response, None otherwise
create_project(st, id) == IF st = "201" THEN id ELSE None

\* variant: the document and the tasks are sent whether or not the project
\* request yielded an id
ImportRunUnconditional(n, sts, id) ==
    LET plan == ImportPlan(n)
        pid == IF sts[1] = "raise" THEN None ELSE create_project(sts[1], id)
        raise == FirstRaise(sts)
        last == IF raise = 0 THEN Len(plan) ELSE raise
    IN  <<[i \in 1 .. last |-> [req |-> plan[i], status |-> sts[i]]],
          IF raise # 0 THEN None ELSE pid>>

\* auto_import_project with n tasks, Archon answering sts and a 201 project
\* response carrying id: the requests sent and the id returned.  Without a
\* project id nothing else is sent; a non-201 answer to the document or a
\* task request is printed and the import goes on; the first request that
\* raises ends the import in the except branch, which returns None.
ImportRun(n, sts, id) ==
    LET plan == ImportPlan(n)
        pid == IF sts[1] = "raise" THEN None ELSE create_project(sts[1], id)
        raise == FirstRaise(sts)
        last == IF pid = None THEN 1 ELSE IF raise = 0 THEN Len(plan) ELSE raise
    IN  <<[i \in 1 .. last |-> [req |-> plan[i], status |-> sts[i]]],
          IF raise # 0 /\ raise <= last THEN None ELSE pid>>

ImportOutcomes ==
    UNION {{ImportRun(n, sts, id) :
               sts \in [1 .. n + 2 -> Statuses], id \in {"p1", None}} :
           n \in 1 .. MaxTasks}

Raised(reqs) == \E i \in 1 .. Len(reqs) : reqs[i].status = "raise"

\* variant: auto_import_project has no try/except, a raising request leaves
\* run_ideation
auto_import_project_unguarded ==
    /\ pc = "import"
    /\ IF archon_enabled
       THEN \E o \in ImportOutcomes :
              /\ requests' = o[1]
              /\ project_id' = o[2]
              /\ IF Raised(o[1])
                 THEN /\ Fail(ArchonFault)
                      /\ UNCHANGED returned
                 ELSE /\ returned' = [specification |-> spec, outputs |-> outputs,
                                      output_directory |-> context["output_dir"],
                                      archon_project_id |-> project_id']
                      /\ pc' = "succeeded"
                      /\ exit_code' = 0
                      /\ UNCHANGED error
       ELSE /\ requests' = requests
            /\ project_id' = None
            /\ returned' = [specification |-> spec, outputs |-> outputs,
                            output_directory |-> context["output_dir"],
                            archon_project_id |-> project_id']
            /\ pc' = "succeeded"
            /\ exit_code' = 0
            /\ UNCHANGED error
    /\ UNCHANGED <<pubvars, cli, run_no, idea_input, context, spec, outputs, archon_enabled,
                   console, files, agents, awaits, results, seen, calls>>
    /\ UNCHANGED loopvars

\* Phase 5.5 and the return of run_ideation to start
auto_import_project ==
    /\ pc = "import"
    /\ IF archon_enabled
       THEN \E o \in ImportOutcomes :
              /\ requests' = o[1]
              /\ project_id' = o[2]
       ELSE /\ requests' = requests
            /\ project_id' = None
    /\ returned' = [specification |-> spec, outputs |-> outputs,
                    output_directory |-> context["output_dir"],
                    archon_project_id |-> project_id']
    /\ pc' = "succeeded"
    /\ exit_code' = 0
    /\ UNCHANGED <<pubvars, cli, run_no, idea_input, context, spec, outputs, error, archon_enabled,
                   console, files, agents, awaits, results, seen, calls>>
    /\ UNCHANGED loopvars

Next ==
    \/ start
    \/ run_phase_1
    \/ run_phase_2
    \/ \E a \in Range(Phase2Agents) : agent_task(a)
    \/ \E a \in Range(Phase2Agents) : send_message(a)
    \/ \E a \in Range(Phase2Agents) : gather_done(a)
    \/ phase_2_join
    \/ generate_specification
    \/ run_phase_4
    \/ generate_outputs
    \/ auto_import_project

Spec == Init /\ [][Next]_vars

\* --------------------------------------------------- the user's Ctrl-C
\* start's `except KeyboardInterrupt`: "Cancelled by user", sys.exit(0)
Cancelled ==
    /\ pc' = "cancelled"
    /\ exit_code' = 0

\* every task of the loop is cancelled when asyncio.run winds up
CancelTasks ==
    /\ ready' = <<>>
    /\ tstate' = [a \in TaskNames |->
                    IF tstate[a] \in {"ready", "running", "waiting"} THEN "cancelled" ELSE tstate[a]]

\* A first SIGINT under asyncio.run cancels the main task; the
\* CancelledError is delivered where the task is suspended or suspends
\* next, the await of gather or a request of the auto-import, and
\* asyncio.run turns it into KeyboardInterrupt.
cancel_main_task ==
    /\ \/ pc = "join"
       \/ pc = "import" /\ archon_enabled
    /\ Cancelled
    /\ CancelTasks
    /\ UNCHANGED <<tresult, texc, outer, nfinished, completed>>
    /\ UNCHANGED <<pubvars, cli, run_no, idea_input, context, spec, outputs, project_id,
                   returned, error, archon_enabled, console, files, requests,
                   agents, awaits, results, seen, calls>>

\* KeyboardInterrupt raised by the signal handler itself (the default
\* handler, or asyncio.run's on a repeated SIGINT): it arrives after any
\* bytecode of the main thread, here between two steps of run_ideation or
\* inside a blocking agent call; inside _generate_outputs it leaves the
\* files written so far.
keyboard_interrupt ==
    /\ pc \in {"start", "phase1", "phase2", "join", "consolidate", "validate",
               "outputs", "import"}
    /\ Cancelled
    /\ CancelTasks
    /\ IF pc = "outputs"
       THEN \E n \in 0 .. Len(OutputFiles(spec)) - 1 : \E printed \in BOOLEAN :
              /\ n > 0 => printed
              /\ files' = {OutputFiles(spec)[i] : i \in 1 .. n}
              /\ console' = IF printed THEN Append(console, "Phase 5") ELSE console
       ELSE UNCHANGED <<files, console>>
    /\ UNCHANGED <<tresult, texc, outer, nfinished, completed>>
    /\ UNCHANGED <<pubvars, cli, run_no, idea_input, context, spec, outputs, project_id,
                   returned, error, archon_enabled, requests, agents, awaits,
                   results, seen, calls>>

\* KeyboardInterrupt inside the merge loop of _run_phase_2, after the
\* update of the k-th fragment and before the next one
interrupt_in_merge ==
    /\ pc = "join"
    /\ NoneRunning
    /\ ready # <<>>
    /\ Head(ready) = Wakeup
    /\ outer.state = "result"
    /\ results' = MapResults(<<>>, agents, outer.value)
    /\ \E k \in 1 .. Len(results') - 1 :
         context' = MergeAll(context, SubSeq(results', 1, k))
    /\ Cancelled
    /\ CancelTasks
    /\ UNCHANGED <<tresult, texc, outer, nfinished, completed>>
    /\ UNCHANGED <<pubvars, cli, run_no, idea_input, spec, outputs, project_id, returned,
                   error, archon_enabled, console, files, requests, agents,
                   awaits, seen, calls>>

NextInt == Next \/ cancel_main_task \/ keyboard_interrupt \/ interrupt_in_merge

SpecInt == Init /\ [][NextInt]_vars

\* ------------------- run_ideation called again on the same orchestrator
ReuseIdeas == {s \in Ideas : NonBlank(s) /\ Len(s) = 1}

\* self.context is created in __init__ only; run_ideation assigns its two
\* seeded keys and leaves every other key of an earlier call in place.  The
\* locals of the call and what is recorded about the run start afresh, and
\* a call without output_dir gets a new, empty directory.
run_again ==
    /\ pc \in {"succeeded", "failed"}
    /\ run_no < MaxRuns
    /\ run_no' = run_no + 1
    /\ UNCHANGED <<pubvars, cli>>
    /\ pc' = "start"
    /\ idea_input' \in ReuseIdeas
    /\ context' = context
    /\ archon_enabled' = archon_enabled
    /\ spec' = Nothing
    /\ outputs' = EmptyCtx
    /\ project_id' = None
    /\ returned' = Nothing
    /\ error' = Nothing
    /\ exit_code' = None
    /\ console' = <<>>
    /\ files' = {}
    /\ requests' = <<>>
    /\ agents' = <<>>
    /\ awaits' = NoAwaits
    /\ ready' = <<>>
    /\ tstate' = NoTasks
    /\ tresult' = NoFragments
    /\ texc' = NoExc
    /\ outer' = PendingOuter
    /\ nfinished' = 0
    /\ completed' = <<>>
    /\ results' = <<>>
    /\ seen' = NotSeen
    /\ calls' = NoCalls

NextReuse == Next \/ run_again

\* one orchestrator without Archon, given one-character ideas
InitReuse ==
    /\ Init
    /\ idea_input \in ReuseIdeas
    /\ ~archon_enabled

SpecReuse == InitReuse /\ [][NextReuse]_vars

\* ------------------------------ run_agents_parallel called on its own
\* A direct call of run_agents_parallel(agents) with n agent functions, each
\* an async function with awaits[a] suspension points that ends by returning
\* a value or by raising.
ParList(n) == [i \in 1 .. n |-> <<ParNames[i], "fn">>]

InitPar ==
    /\ pc = "call"
    /\ \E n \in 1 .. NAgents : agents = ParList(n)
    /\ awaits \in [TaskNames -> 0 .. MaxAwaits]
    /\ \A a \in TaskNames : a \notin {agents[i][1] : i \in 1 .. Len(agents)} => awaits[a] = 0
    /\ idea_input = <<"a">>
    /\ archon_enabled = FALSE
    /\ context = EmptyCtx
    /\ spec = Nothing
    /\ outputs = EmptyCtx
    /\ project_id = None
    /\ returned = Nothing
    /\ error = Nothing
    /\ exit_code = None
    /\ console = <<>>
    /\ files = {}
    /\ requests = <<>>
    /\ ready = <<>>
    /\ tstate = NoTasks
    /\ tresult = NoFragments
    /\ texc = NoExc
    /\ outer = PendingOuter
    /\ nfinished = 0
    /\ completed = <<>>
    /\ results = <<>>
    /\ seen = NotSeen
    /\ calls = NoCalls
    /\ run_no = 1
    /\ documents = <<>>
    /\ tasks = <<>>
    /\ created_docs = <<>>
    /\ created_tasks = <<>>
    /\ project_response = Nothing
    /\ cli = CliPassed(idea_input)

parframe == <<pubvars, cli, run_no, idea_input, spec, outputs, project_id, exit_code,
              archon_enabled, console, files, requests, seen>>

\* run_agents_parallel up to the await of asyncio.gather
call_par ==
    /\ pc = "call"
    /\ Launch(agents)
    /\ pc' = "join"
    /\ UNCHANGED <<awaits, results, returned, error, context>>
    /\ UNCHANGED parframe

\* variant: the executor invokes the function of a failed agent once more
par_task_retry(a) ==
    /\ pc \in LoopPcs
    /\ a \in ParAgents
    /\ ready # <<>>
    /\ Head(ready) = <<"step", a>>
    /\ IF awaits[a] > 0
       THEN /\ awaits' = [awaits EXCEPT ![a] = @ - 1]
            /\ tstate' = [tstate EXCEPT ![a] = "waiting"]
            /\ ready' = Tail(ready)
            /\ UNCHANGED <<tresult, texc, completed, calls>>
       ELSE \/ /\ calls[a] < 2
               /\ calls' = [calls EXCEPT ![a] = @ + 1]
               /\ ready' = Append(Tail(ready), <<"step", a>>)
               /\ UNCHANGED <<awaits, tstate, tresult, texc, completed>>
            \/ /\ calls[a] >= 2
               /\ tstate' = [tstate EXCEPT ![a] = "failed"]
               /\ texc' = [texc EXCEPT ![a] = GenerationFault]
               /\ ready' = Append(Tail(ready), <<"cb", a>>)
               /\ completed' = Append(completed, a)
               /\ UNCHANGED <<awaits, tresult, calls>>
            \/ \E r \in Texts :
                 /\ tstate' = [tstate EXCEPT ![a] = "done"]
                 /\ tresult' = [tresult EXCEPT ![a] = [text |-> r, agent_name |-> a]]
                 /\ ready' = Append(Tail(ready), <<"cb", a>>)
                 /\ completed' = Append(completed, a)
                 /\ UNCHANGED <<awaits, texc, calls>>
    /\ UNCHANGED <<outer, nfinished>>
    /\ UNCHANGED <<pc, agents, results, returned, error, context>>
    /\ UNCHANGED parframe

\* a task of the gather runs until its function suspends, returns or raises
par_task(a) ==
    /\ pc \in LoopPcs
    /\ a \in ParAgents
    /\ ready # <<>>
    /\ Head(ready) = <<"step", a>>
    /\ IF awaits[a] > 0
       THEN /\ awaits' = [awaits EXCEPT ![a] = @ - 1]
            /\ tstate' = [tstate EXCEPT ![a] = "waiting"]
            /\ ready' = Tail(ready)
            /\ UNCHANGED <<tresult, texc, completed>>
       ELSE /\ ready' = Append(Tail(ready), <<"cb", a>>)
            /\ completed' = Append(completed, a)
            /\ UNCHANGED awaits
            /\ \/ /\ tstate' = [tstate EXCEPT ![a] = "failed"]
                  /\ texc' = [texc EXCEPT ![a] = GenerationFault]
                  /\ UNCHANGED tresult
               \/ \E r \in Texts :
                    /\ tstate' = [tstate EXCEPT ![a] = "done"]
                    /\ tresult' = [tresult EXCEPT ![a] = [text |-> r, agent_name |-> a]]
                    /\ UNCHANGED texc
    /\ UNCHANGED <<outer, nfinished>>
    /\ UNCHANGED <<pc, agents, results, returned, error, calls, context>>
    /\ UNCHANGED parframe

\* what a suspended function waits for arrives: its task is queued again
io_complete(a) ==
    /\ pc \in LoopPcs
    /\ tstate[a] = "waiting"
    /\ tstate' = [tstate EXCEPT ![a] = "ready"]
    /\ ready' = Append(ready, <<"step", a>>)
    /\ UNCHANGED <<tresult, texc, outer, nfinished, completed>>
    /\ UNCHANGED <<pc, agents, awaits, results, returned, error, calls,
                   context>>
    /\ UNCHANGED parframe

\* the gather is over and run_agents_parallel resumes: it raises the
\* gather's exception to its caller, or returns the mapped results and the
\* caller merges them as _run_phase_2 does
par_join ==
    /\ pc = "join"
    /\ ready # <<>>
    /\ Head(ready) = Wakeup
    /\ ready' = Tail(ready)
    /\ IF outer.state = "exception"
       THEN /\ pc' = "raised"
            /\ error' = outer.value
            /\ UNCHANGED <<results, returned, context>>
       ELSE /\ results' = MapResults(<<>>, agents, outer.value)
            /\ returned' = results'
            /\ context' = MergeAll(context, results')
            /\ pc' = "returned"
            /\ UNCHANGED error
    /\ UNCHANGED <<tstate, tresult, texc, outer, nfinished, completed>>
    /\ UNCHANGED <<agents, awaits, calls>>
    /\ UNCHANGED parframe

NextPar ==
    \/ call_par
    \/ \E a \in ParAgents : par_task(a)
    \/ \E a \in ParAgents : io_complete(a)
    \/ \E a \in ParAgents : gather_done(a)
    \/ par_join

SpecPar == InitPar /\ [][NextPar]_vars

\* ------------------------------------- publish_to_archon on its own
\* what a requests.post followed by raise_for_status() and json() can do:
\* succeed, be answered with an error status, raise on the connection, or
\* be answered with a body that is not JSON
PostOutcomes == {"ok", "http_error", "raise", "bad_json"}
PublishFault(o) == [type |-> "RequestException", msg |-> o]

\* the shapes of a project response of Archon
ProjectResponses ==
    {[project_id |-> "p1"], [project |-> [id |-> "p2"]], [id |-> "p3"],
     [project |-> [title |-> "t"]], [message |-> "created"]}

extract_project_id(response) ==
    IF "project_id" \in DOMAIN response THEN response["project_id"]
    ELSE IF "project" \in DOMAIN response /\ "id" \in DOMAIN response["project"]
    THEN response["project"]["id"]
    ELSE IF "id" \in DOMAIN response THEN response["id"]
    ELSE "unknown"

\* the requests of one kind sent so far
Sent(kind) == SelectSeq(requests, LAMBDA q : q.req = kind)
Succeeded(kind) == SelectSeq(requests, LAMBDA q : q.req = kind /\ q.status = "ok")

pubframe == <<cli, run_no, idea_input, context, spec, outputs, project_id, exit_code,
              archon_enabled, console, files, agents, awaits, results, seen,
              calls>>

InitPub ==
    /\ pc = "publish"
    /\ \E n \in 0 .. MaxDocs : documents = [i \in 1 .. n |-> i]
    /\ \E n \in 0 .. MaxTasks : tasks = [i \in 1 .. n |-> i]
    /\ created_docs = <<>>
    /\ created_tasks = <<>>
    /\ project_response = Nothing
    /\ cli = CliPassed(<<"a">>)
    /\ idea_input = <<"a">>
    /\ archon_enabled = TRUE
    /\ context = EmptyCtx
    /\ spec = Nothing
    /\ outputs = EmptyCtx
    /\ project_id = None
    /\ returned = Nothing
    /\ error = Nothing
    /\ exit_code = None
    /\ console = <<>>
    /\ files = {}
    /\ requests = <<>>
    /\ agents = <<>>
    /\ awaits = NoAwaits
    /\ ready = <<>>
    /\ tstate = NoTasks
    /\ tresult = NoFragments
    /\ texc = NoExc
    /\ outer = PendingOuter
    /\ nfinished = 0
    /\ completed = <<>>
    /\ results = <<>>
    /\ seen = NotSeen
    /\ calls = NoCalls
    /\ run_no = 1

\* step 8: the project request; raise_for_status() and json() are outside
\* any try, so every failure leaves publish_to_archon
publish_project ==
    /\ pc = "publish"
    /\ \E o \in PostOutcomes :
         /\ requests' = <<[req |-> "project", status |-> o]>>
         /\ IF o = "ok"
            THEN /\ \E r \in ProjectResponses : project_response' = r
                 /\ pc' = "pub_docs"
                 /\ UNCHANGED error
            ELSE /\ pc' = "pub_failed"
                 /\ error' = PublishFault(o)
                 /\ UNCHANGED project_response
    /\ UNCHANGED <<documents, tasks, created_docs, created_tasks, returned>>
    /\ UNCHANGED loopvars
    /\ UNCHANGED pubframe

\* variant: a document request that fails ends publish_to_archon
create_document_aborts ==
    /\ pc = "pub_docs"
    /\ documents # <<>>
    /\ extract_project_id(project_response) # "unknown"
    /\ Len(Sent("docs")) < Len(documents)
    /\ \E o \in PostOutcomes :
         /\ requests' = Append(requests, [req |-> "docs", status |-> o])
         /\ IF o = "ok"
            THEN /\ created_docs' = Append(created_docs, documents[Len(Sent("docs")) + 1])
                 /\ UNCHANGED <<pc, error>>
            ELSE /\ pc' = "pub_failed"
                 /\ error' = PublishFault(o)
                 /\ UNCHANGED created_docs
    /\ UNCHANGED <<documents, tasks, created_tasks, project_response, returned>>
    /\ UNCHANGED loopvars
    /\ UNCHANGED pubframe

\* step 9, one turn of the loop: the request of the next document inside
\* try/except, which prints a warning and goes on
create_document ==
    /\ pc = "pub_docs"
    /\ documents # <<>>
    /\ extract_project_id(project_response) # "unknown"
    /\ Len(Sent("docs")) < Len(documents)
    /\ \E o \in PostOutcomes :
         /\ requests' = Append(requests, [req |-> "docs", status |-> o])
         /\ created_docs' = IF o = "ok"
                            THEN Append(created_docs, documents[Len(Sent("docs")) + 1])
                            ELSE created_docs
    /\ UNCHANGED <<pc, error, documents, tasks, created_tasks, project_response,
                   returned>>
    /\ UNCHANGED loopvars
    /\ UNCHANGED pubframe

\* step 9 is over: documents_created is set when the block was entered
documents_done ==
    /\ pc = "pub_docs"
    /\ IF documents # <<>> /\ extract_project_id(project_response) # "unknown"
       THEN /\ Len(Sent("docs")) = Len(documents)
            /\ project_response' =
                   SetItem(SetItem(project_response, "documents_created", Len(created_docs)),
                           "documents", created_docs)
       ELSE UNCHANGED project_response
    /\ pc' = "pub_tasks"
    /\ UNCHANGED <<error, requests, documents, tasks, created_docs, created_tasks,
                   returned>>
    /\ UNCHANGED loopvars
    /\ UNCHANGED pubframe

\* step 10, one turn of the loop: the request of the next task
create_task ==
    /\ pc = "pub_tasks"
    /\ tasks # <<>>
    /\ extract_project_id(project_response) # "unknown"
    /\ Len(Sent("tasks")) < Len(tasks)
    /\ \E o \in PostOutcomes :
         /\ requests' = Append(requests, [req |-> "tasks", status |-> o])
         /\ created_tasks' = IF o = "ok"
                             THEN Append(created_tasks, tasks[Len(Sent("tasks")) + 1])
                             ELSE created_tasks
    /\ UNCHANGED <<pc, error, documents, tasks, created_docs, project_response,
                   returned>>
    /\ UNCHANGED loopvars
    /\ UNCHANGED pubframe

\* step 10 is over and publish_to_archon returns project_response
tasks_done ==
    /\ pc = "pub_tasks"
    /\ IF tasks # <<>> /\ extract_project_id(project_response) # "unknown"
       THEN /\ Len(Sent("tasks")) = Len(tasks)
            /\ project_response' =
                   SetItem(SetItem(project_response, "tasks_created", Len(created_tasks)),
                           "tasks", created_tasks)
       ELSE UNCHANGED project_response
    /\ returned' = project_response'
    /\ pc' = "published"
    /\ UNCHANGED <<error, requests, documents, tasks, created_docs, created_tasks>>
    /\ UNCHANGED loopvars
    /\ UNCHANGED pubframe

NextPub ==
    \/ publish_project
    \/ create_document
    \/ documents_done
    \/ create_task
    \/ tasks_done

SpecPub == InitPub /\ [][NextPub]_vars

\* ------------------------------------------------- the start command
\* what the user can pass as --idea or type at the prompt (<<>>: nothing)
CliIdeas == {<<>>} \cup {s \in Ideas : Len(s) = 1}

CliPcs == {"cli", "no_setup", "no_idea", "declined"}

\* the idea handed to run_ideation: --idea, or else the prompt's answer
CliIdea == IF cli.option # <<>> THEN cli.option ELSE cli.prompt

\* the prompt is only reached without --idea
InitCli ==
    /\ pc = "cli"
    /\ \E config, confirm \in BOOLEAN : \E option, prompt \in CliIdeas :
         /\ option # <<>> => prompt = <<>>
         /\ cli = [config |-> config, option |-> option, prompt |-> prompt,
                   confirm |-> confirm, out |-> <<>>]
    /\ idea_input = <<>>
    /\ archon_enabled \in BOOLEAN
    /\ context = EmptyCtx
    /\ spec = Nothing
    /\ outputs = EmptyCtx
    /\ project_id = None
    /\ returned = Nothing
    /\ error = Nothing
    /\ exit_code = None
    /\ console = <<>>
    /\ files = {}
    /\ requests = <<>>
    /\ agents = <<>>
    /\ awaits = NoAwaits
    /\ ready = <<>>
    /\ tstate = NoTasks
    /\ tresult = NoFragments
    /\ texc = NoExc
    /\ outer = PendingOuter
    /\ nfinished = 0
    /\ completed = <<>>
    /\ results = <<>>
    /\ seen = NotSeen
    /\ calls = NoCalls
    /\ run_no = 1
    /\ documents = <<>>
    /\ tasks = <<>>
    /\ created_docs = <<>>
    /\ created_tasks = <<>>
    /\ project_response = Nothing

\* a return of the command before the try: the process ends with status 0
CliReturn(at, msg) ==
    /\ pc' = at
    /\ cli' = [cli EXCEPT !.out = Append(@, msg)]
    /\ exit_code' = 0
    /\ UNCHANGED idea_input

\* variant: the orchestrator runs whatever the user answers at Confirm.ask
cli_start_unconfirmed ==
    /\ pc = "cli"
    /\ IF ~cli.config
       THEN CliReturn("no_setup", "config.yaml not found")
       ELSE IF cli.option = <<>> /\ Strip(cli.prompt) = <<>>
       THEN CliReturn("no_idea", "No idea provided")
       ELSE /\ pc' = "start"
            /\ idea_input' = CliIdea
            /\ cli' = [cli EXCEPT !.out = Append(@, "Your Idea")]
            /\ UNCHANGED exit_code
    /\ UNCHANGED <<pubvars, run_no, context, spec, outputs, project_id, returned,
                   error, archon_enabled, console, files, requests, agents,
                   awaits, results, seen, calls>>
    /\ UNCHANGED loopvars

\* start up to the try: check_setup, the idea, the confirmation
cli_start ==
    /\ pc = "cli"
    /\ IF ~cli.config
       THEN CliReturn("no_setup", "config.yaml not found")
       ELSE IF cli.option = <<>> /\ Strip(cli.prompt) = <<>>
       THEN CliReturn("no_idea", "No idea provided")
       ELSE IF ~cli.confirm
       THEN /\ pc' = "declined"
            /\ cli' = [cli EXCEPT !.out = @ \o <<"Your Idea", "Cancelled.">>]
            /\ exit_code' = 0
            /\ UNCHANGED idea_input
       ELSE /\ pc' = "start"
            /\ idea_input' = CliIdea
            /\ cli' = [cli EXCEPT !.out = Append(@, "Your Idea")]
            /\ UNCHANGED exit_code
    /\ UNCHANGED <<pubvars, run_no, context, spec, outputs, project_id, returned,
                   error, archon_enabled, console, files, requests, agents,
                   awaits, results, seen, calls>>
    /\ UNCHANGED loopvars

\* start after asyncio.run: the success message, or the message of the
\* except clause that caught what left asyncio.run
cli_report ==
    /\ pc \in {"succeeded", "failed", "cancelled"}
    /\ pc' = "exited"
    /\ cli' = [cli EXCEPT !.out =
                 Append(@, CASE pc = "succeeded" -> "Success!"
                             [] pc = "failed" -> "Error"
                             [] pc = "cancelled" -> "Cancelled by user")]
    /\ UNCHANGED <<pubvars, run_no, idea_input, context, spec, outputs, project_id,
                   returned, error, exit_code, archon_enabled, console, files,
                   requests, agents, awaits, results, seen, calls>>
    /\ UNCHANGED loopvars

NextCli ==
    \/ cli_start
    \/ NextInt
    \/ cli_report

SpecCli == InitCli /\ [][NextCli]_vars

\* ================================================================ claims
PhaseOrder == <<"Phase 1", "Phase 2", "Phase 3", "Phase 4", "Phase 5">>
IsPrefix(s, t) == Len(s) <= Len(t) /\ s = SubSeq(t, 1, Len(s))

OwnKey(a) ==
    CASE a = research_agent -> "research_report"
      [] a = feature_planner -> "features"
      [] a = techstack_analyzer -> "techstack"
      [] a = reusability_scout -> "reusable_assets"
      [] a = validator -> "validation_report"

\* agent a succeeded and its fragment is in the context
Merged(a) ==
    /\ tstate[a] = "done"
    /\ DOMAIN tresult[a] \subseteq DOMAIN context
    /\ context[OwnKey(a)] = tresult[a][OwnKey(a)]

AgentFailed(a) == tstate[a] = "failed"
Ran(a) == tstate[a] \in {"done", "failed"}
ParNamesOf(ags) == [i \in 1 .. Len(ags) |-> ags[i][1]]

\* C1: the phases of a run are announced in the fixed order Phase 1, Phase 2,
\* Phase 3 (consolidate), Phase 4 (validation), Phase 5 (outputs); a phase has
\* started only when the fragments of the phase before it are merged into the
\* context, and a run that succeeds has gone through all five.
C1_PhaseOrder ==
    /\ IsPrefix(console, PhaseOrder)
    /\ Len(console) >= 2 => Merged(research_agent)
    /\ Len(console) >= 3 => \A a \in Range(Phase2Agents) : Merged(a)
    /\ Len(console) >= 4 => spec # Nothing /\ context["specification"] = spec
    /\ Len(console) >= 5 => Merged(validator)
    /\ pc = "succeeded" => console = PhaseOrder

C1_Witness == pc = "succeeded" /\ console = PhaseOrder /\ Merged(validator)

\* C2: once an agent has failed and its phase is over, the run is in Failed
\* with that agent's fault: no agent of a later phase was called, there is no
\* Specification unless the failure is the validator's, no output file was
\* written and no request was sent to Archon.
C2_FailureShortCircuits ==
    (pc # "join" /\ \E a \in AllAgents : AgentFailed(a)) =>
        /\ pc = "failed"
        /\ error = GenerationFault
        /\ exit_code = 1
        /\ files = {}
        /\ requests = <<>>
        /\ returned = Nothing
        /\ AgentFailed(research_agent) =>
              \A a \in AllAgents \ {research_agent} : calls[a] = 0
        /\ ~AgentFailed(validator) =>
              /\ calls[validator] = 0
              /\ spec = Nothing
              /\ "specification" \notin DOMAIN context

C2_Witness ==
    /\ pc = "failed"
    /\ AgentFailed(techstack_analyzer)
    /\ tstate[feature_planner] = "done"
    /\ tstate[reusability_scout] = "done"

\* C3: when run_agents_parallel has returned or raised, every agent of the
\* call has completed or failed.
C3_JoinBeforeRaise ==
    pc \in {"returned", "raised"} =>
        \A i \in 1 .. Len(agents) : Ran(agents[i][1])

\* C4: when exactly one Phase 2 agent fails, the run ends in Failed with a
\* ParallelPhaseError that carries the two successful fragments and the one
\* failure.
C4_AggregateError ==
    (/\ pc = "failed"
     /\ console = <<"Phase 1", "Phase 2">>
     /\ Cardinality({a \in Range(Phase2Agents) : AgentFailed(a)}) = 1) =>
        /\ error.type = "ParallelPhaseError"
        /\ "successes" \in DOMAIN error
        /\ "failures" \in DOMAIN error
        /\ Len(error.successes) = Len(Phase2Agents) - 1
        /\ Len(error.failures) = 1

\* C5: when run_agents_parallel returns, the mapping has exactly one entry
\* per agent of the call, and each name maps to the fragment that agent's
\* function returned, whatever the order the agents finished in.
C5_MappingComplete ==
    pc = "returned" =>
        /\ Len(results) = Len(agents)
        /\ DictKeys(results) = Range(ParNamesOf(agents))
        /\ \A a \in DictKeys(results) :
              /\ DictGet(results, a) = tresult[a]
              /\ DictGet(results, a).agent_name = a

C5_Witness ==
    /\ pc = "returned"
    /\ Len(agents) = NAgents
    /\ completed # ParNamesOf(agents)

\* C6: every Phase 2 agent reads the context as it was when Phase 1 had been
\* merged: the seeded keys and the research fragment, and no key of a sibling.
C6_FanOutReadsEarlierPhases ==
    \A a \in Range(Phase2Agents) :
        Ran(a) =>
            /\ seen[a] = Update(seen[research_agent], tresult[research_agent])
            /\ DOMAIN seen[a] = {"output_dir", "idea_description",
                                 "research_report", "agent_name", "status"}
            /\ \A b \in Range(Phase2Agents) : Ran(b) => seen[b] = seen[a]

C6_Witness ==
    /\ pc = "join"
    /\ \A a \in Range(Phase2Agents) : tstate[a] = "done"

RECURSIVE RegistrationMerge(_)
\* the fragments of the first n registered agents, merged in that order
RegistrationMerge(n) ==
    IF n = 0 THEN EmptyCtx
    ELSE Update(RegistrationMerge(n - 1), tresult[agents[n][1]])

\* C7: after a successful fan-out the context is the fragments merged in
\* registration order, so a key that several fragments carry has the value of
\* the last registered agent, whatever the order the agents finished in.
C7_MergeInRegistrationOrder ==
    pc = "returned" =>
        /\ context = RegistrationMerge(Len(agents))
        /\ context["agent_name"] = agents[Len(agents)][1]

C7_Witness ==
    /\ pc = "returned"
    /\ Len(agents) >= 2
    /\ completed[1] = agents[Len(agents)][1]
    /\ tresult[agents[1][1]].text # tresult[agents[Len(agents)][1]].text

\* C8: no step changes the value of a key that is already in the context.
C8_NoKeyRewritten ==
    [][\A k \in DOMAIN context :
          k \in DOMAIN context' /\ context'[k] = context[k]]_vars

\* C9: when the Phase 2 results are merged and a fragment carries a key that
\* is already in the context, the merge fails with DuplicateKeyError and the
\* context stays as it was.
C9_DuplicateKeyRejected ==
    [][(/\ pc = "join"
        /\ pc' # "join"
        /\ outer.state = "result"
        /\ \E i \in 1 .. Len(outer.value) :
              DOMAIN outer.value[i] \cap DOMAIN context # {}) =>
       (/\ pc' = "failed"
        /\ error'.type = "DuplicateKeyError"
        /\ context' = context)]_vars

\* C10: a failure of the Output Sink leaves the run in Succeeded with the
\* Specification returned.
C10_SinkFailureKeepsSuccess ==
    error = SinkFault =>
        /\ pc = "succeeded"
        /\ returned # Nothing
        /\ returned.specification = spec

C12_FailureReportIdentifies ==
    (pc = "failed" /\ \E a \in TaskNames : AgentFailed(a)) =>
        /\ "type" \in DOMAIN error
        /\ "phase" \in DOMAIN error
        /\ "agents" \in DOMAIN error
        /\ error.agents = {a \in TaskNames : AgentFailed(a)}

\* C13: when every agent has succeeded and the output files are written, the
\* run ends in Succeeded (only the auto-import, which cannot fail it, may
\* still be ahead) and every section of the Specification is filled from the
\* context: the description is the seeded idea, and the research, features,
\* techstack and reusable-assets sections are the outputs of the agents that
\* produced those keys.
C13_SuccessPopulatesSpecification ==
    ((\A a \in AllAgents : tstate[a] = "done") /\ outputs # EmptyCtx) =>
        /\ pc \in {"import", "succeeded"}
        /\ pc = "import" => ENABLED auto_import_project
        /\ pc = "succeeded" => exit_code = 0 /\ returned.specification = spec
        /\ error = Nothing
        /\ spec.project.description = idea_input
        /\ spec.research.report = tresult[research_agent].research_report
        /\ spec.features.plan = tresult[feature_planner].features
        /\ spec.techstack.recommendations = tresult[techstack_analyzer].techstack
        /\ spec.reusability.assets = tresult[reusability_scout].reusable_assets
        /\ {f.path : f \in files} =
              {"project-spec.json", "project-spec.md", "archon-import.json"}

C13_Witness ==
    /\ pc = "succeeded"
    /\ \A a \in AllAgents : tstate[a] = "done"
    /\ outputs # EmptyCtx
    /\ tresult[feature_planner].features # tresult[techstack_analyzer].techstack
    /\ spec.features.plan = tresult[feature_planner].features

\* C14: within a run the context only grows: after every step the keys of
\* the context are a superset of the keys before the step.
C14_ContextOnlyGrows == [][DOMAIN context \subseteq DOMAIN context']_vars

C14_Witness ==
    /\ pc = "succeeded"
    /\ {"output_dir", "idea_description", "research_report", "features",
        "techstack", "reusable_assets", "similar_projects", "specification",
        "validation_report", "agent_name", "status"} \subseteq DOMAIN context

\* C15: every run starts from an empty context: when Phase 1 begins the
\* context holds the seeded input of this run and nothing else, also when
\* run_ideation is called again on the same orchestrator.
C15_RunStartsFromEmptyContext ==
    pc = "phase1" =>
        /\ DOMAIN context = {"output_dir", "idea_description"}
        /\ context["idea_description"] = idea_input

\* C16: Consolidate is a pure projection: the step of _generate_specification
\* leaves the context unchanged, same keys and same values before and after.
C16_ConsolidateLeavesContext == [][pc = "consolidate" => context' = context]_vars

\* C17: two runs that merged the same fragments in the same order produce
\* the same Specification whenever they take place: consolidating the merged
\* context gives one result, whatever the time of the run.
C17_SpecificationDeterministic ==
    pc = "consolidate" =>
        \A t1, t2 \in 1 .. MaxClock :
            Specification(context, t1) = Specification(context, t2)

\* C18: a cancellation by the user never leaves the context partially
\* merged: once the run is cancelled the context holds the fragments of all
\* agents of the fan-out phase or of none of them.
C18_CancelLeavesNoPartialMerge ==
    pc = "cancelled" =>
        \/ \A a \in Range(Phase2Agents) : OwnKey(a) \in DOMAIN context
        \/ \A a \in Range(Phase2Agents) : OwnKey(a) \notin DOMAIN context

\* C19: the agents of a fan-out run concurrently: an agent's call of the
\* provider does not have to complete before a sibling starts, so while one
\* agent is inside that call the sibling whose task is next in the loop's
\* queue can take its first step.
C19_SiblingStartsDuringCall ==
    \A a, b \in Range(Phase2Agents) :
        (tstate[a] = "running" /\ ready # <<>> /\ Head(ready) = <<"step", b>>)
            => ENABLED agent_task(b)

\* C20: run_agents_parallel invokes the function of each agent exactly once
\* per call, whether the agent succeeds or fails; a failed agent is never
\* invoked again.
C20_EachAgentInvokedOnce ==
    pc \in {"join", "returned", "raised"} =>
        \A a \in TaskNames :
            calls[a] = IF \E i \in 1 .. Len(agents) : agents[i][1] = a THEN 1 ELSE 0

C20_Witness ==
    /\ pc = "raised"
    /\ Len(agents) = NAgents
    /\ \E i \in 1 .. Len(agents) :
         /\ AgentFailed(agents[i][1])
         /\ calls[agents[i][1]] = 1
    /\ \A i \in 1 .. Len(agents) : Ran(agents[i][1])

\* C21: no agent's run mutates the context it is given: a step in which an
\* agent starts, returns or fails leaves the context as it was, except for
\* the orchestrator's merge of the returned fragment, which in the sequential
\* phases follows the agent's return in the same step.
C21_AgentsLeaveContext ==
    [][\A a \in AllAgents :
         (tstate'[a] # tstate[a] /\ tstate'[a] \in {"running", "done", "failed"}) =>
             context' = IF a \notin Range(Phase2Agents) /\ tstate'[a] = "done"
                        THEN Update(context, tresult'[a])
                        ELSE context]_vars

C21_Witness ==
    /\ pc = "join"
    /\ tstate[feature_planner] = "done"
    /\ tstate[techstack_analyzer] = "running"
    /\ "features" \notin DOMAIN context
    /\ context = seen[feature_planner]

\* the keys the docstring of an agent's run() says the context must contain
Required(a) ==
    CASE a = research_agent -> {"idea_description"}
      [] a = feature_planner -> {"idea_description", "research_report"}
      [] a = techstack_analyzer -> {"idea_description", "features"}
      [] a = reusability_scout -> {"idea_description", "features"}
      [] a = validator -> {"idea_description", "research_report", "features",
                           "techstack", "reusable_assets"}

\* C22: an agent whose run() is called with a context that lacks a key the
\* agent requires fails with ContextMissingFieldError and does not call the
\* text-generation provider.
C22_MissingKeyFails ==
    \A a \in AllAgents :
        (tstate[a] \in {"running", "done", "failed"}
            /\ ~(Required(a) \subseteq DOMAIN seen[a])) =>
                /\ tstate[a] = "failed"
                /\ texc[a].type = "ContextMissingFieldError"

\* C23: running an agent again with the same context yields a fragment of
\* the same shape: whatever text the provider answers the second time, the
\* fragment has the keys of the first one, the status "completed" and the
\* agent's own name.
C23_FragmentShapeStable ==
    \A a \in AllAgents :
        tstate[a] = "done" =>
            \A r \in Texts :
                /\ DOMAIN Fragment(a, r) = DOMAIN tresult[a]
                /\ {"status", "agent_name"} \subseteq DOMAIN tresult[a]
                /\ Fragment(a, r).status = tresult[a].status
                /\ Fragment(a, r).agent_name = tresult[a].agent_name
                /\ tresult[a].agent_name = a
                /\ tresult[a].status = "completed"

C23_Witness ==
    /\ \A a \in AllAgents : tstate[a] = "done"
    /\ \E r \in Texts : Fragment(validator, r) # tresult[validator]
    /\ tresult[validator].validation_report # tresult[techstack_analyzer].techstack

\* C24: the knowledge lookup never fails the calling agent:
\* search_similar_projects returns an empty sequence when the lookup is
\* disabled and when it errors, the Reusability Scout fails only on the
\* provider's fault, and its fragment carries the empty sequence.
C24_LookupNeverFailsAgent ==
    /\ \A e \in BOOLEAN : \A l \in LookupOutcomes :
          /\ ~search_similar_projects(e, l).raised
          /\ (~e \/ l = "error") => search_similar_projects(e, l).value = <<>>
    /\ tstate[reusability_scout] = "failed" =>
          texc[reusability_scout] = GenerationFault
    /\ tstate[reusability_scout] = "done" =>
          /\ tresult[reusability_scout].similar_projects = <<>>
          /\ DOMAIN tresult[reusability_scout] =
                {"reusable_assets", "agent_name", "similar_projects", "status"}

C24_Witness ==
    /\ archon_enabled
    /\ tstate[reusability_scout] = "done"
    /\ tresult[reusability_scout].similar_projects = <<>>
    /\ tresult[reusability_scout].reusable_assets \in Texts

\* the Specification stored in the project-spec.json file, if it is written
JsonFileSpecs == {f.content[2] : f \in {g \in files : g.path = "project-spec.json"}}

\* C25: on the first run of an orchestrator the Specification that is
\* written to the output files, handed to the auto-import and returned has
\* an empty validation report: it is built before the validator runs, the
\* validator's fragment goes into the context only, and the Specification
\* is never rebuilt afterwards.
C25_ValidationReportStaysEmpty ==
    /\ [](/\ spec # Nothing => spec.validation.report = 0
          /\ \A sp \in JsonFileSpecs : sp = spec
          /\ \A f \in files : f.path = "project-spec.md" => f.content[2].validation = 0
          /\ returned # Nothing => returned.specification = spec
          /\ tstate[validator] = "done" =>
                /\ context["validation_report"] = tresult[validator].validation_report
                /\ context["validation_report"] \in Texts
                /\ context["specification"] = spec)
    /\ [][spec # Nothing => spec' = spec]_vars

C25_Witness ==
    /\ pc = "succeeded"
    /\ requests # <<>>
    /\ context["validation_report"] \in Texts
    /\ returned.specification.validation.report = 0
    /\ JsonFileSpecs = {spec}

\* C26: if a Phase 2 agent fails, the context is exactly what it was when
\* Phase 2 started, the seeded input with the research fragment: the
\* fragments of the siblings that succeeded are not merged.
C26_FailedFanOutMergesNothing ==
    (\E a \in Range(Phase2Agents) : AgentFailed(a)) =>
        /\ context = Update(seen[research_agent], tresult[research_agent])
        /\ context = seen[feature_planner]
        /\ \A b \in Range(Phase2Agents) : OwnKey(b) \notin DOMAIN context
        /\ pc \in {"join", "failed"}

C26_Witness ==
    /\ pc = "failed"
    /\ AgentFailed(techstack_analyzer)
    /\ tstate[feature_planner] = "done"
    /\ tstate[reusability_scout] = "done"
    /\ "features" \notin DOMAIN context

\* C27: the merge is last-writer-wins: a key that several fragments carry
\* (agent_name, status) holds the value of the fragment merged last, so the
\* context's agent_name is the Research Agent's after Phase 1, the
\* Reusability Scout's (registered last) after Phase 2 and the Validator's
\* after the validation.
C27_LastWriterWins ==
    /\ pc \in {"phase2", "join"} =>
          context["agent_name"] = research_agent
    /\ pc \in {"consolidate", "validate"} =>
          /\ context["agent_name"] = reusability_scout
          /\ context["agent_name"] = Phase2Agents[Len(Phase2Agents)]
          /\ context["status"] = tresult[reusability_scout].status
    /\ pc \in {"outputs", "import", "succeeded"} =>
          /\ context["agent_name"] = validator
          /\ context["status"] = tresult[validator].status

C27_Witness ==
    /\ pc = "validate"
    /\ context["agent_name"] = reusability_scout
    /\ {"features", "techstack", "reusable_assets"} \subseteq DOMAIN context

\* C28: the auto-import is attempted only after the output files have been
\* generated and only when the integration is enabled; its requests are
\* ordered create-project, create-document, create-tasks, and when the
\* project request is not answered 201 no document or task request is sent.
C28_ImportOrder ==
    requests # <<>> =>
        /\ archon_enabled
        /\ outputs # EmptyCtx
        /\ {f.path : f \in files} =
              {"project-spec.json", "project-spec.md", "archon-import.json"}
        /\ pc = "succeeded"
        /\ requests[1].req = "project"
        /\ Len(requests) >= 2 => requests[2].req = "docs"
        /\ \A i \in 3 .. Len(requests) : requests[i].req = "tasks"
        /\ requests[1].status # "201" => Len(requests) = 1
        /\ \A i \in 1 .. Len(requests) - 1 : requests[i].status # "raise"

C28_Witness ==
    /\ pc = "succeeded"
    /\ Len(requests) = 1
    /\ requests[1] = [req |-> "project", status |-> "500"]
    /\ project_id = None

\* C29: in publish_to_archon a failed project request ends the publish
\* with that request the only one sent; once the project request has
\* succeeded no failed document or task request makes the publish fail, and
\* at the return every document and every task has been requested when the
\* project id is known; documents_created and tasks_created, where set,
\* equal the number of succeeded requests of their kind; with the project
\* id "unknown" no document or task request is sent.
C29_PublishRequests ==
    /\ (requests # <<>> /\ requests[1].status # "ok")
          => (pc = "pub_failed" /\ Len(requests) = 1 /\ returned = Nothing)
    /\ (requests # <<>> /\ requests[1].status = "ok") => pc # "pub_failed"
    /\ \A i \in 1 .. Len(requests) : (requests[i].req = "project") = (i = 1)
    /\ \A i, j \in 1 .. Len(requests) :
          (requests[i].req = "docs" /\ requests[j].req = "tasks") => i < j
    /\ project_response # Nothing =>
          /\ "documents_created" \in DOMAIN project_response
                => project_response["documents_created"] = Len(Succeeded("docs"))
          /\ "tasks_created" \in DOMAIN project_response
                => project_response["tasks_created"] = Len(Succeeded("tasks"))
          /\ extract_project_id(project_response) = "unknown"
                => /\ Len(requests) = 1
                   /\ created_docs = <<>>
                   /\ created_tasks = <<>>
    /\ Len(created_docs) = Len(Succeeded("docs"))
    /\ Len(created_tasks) = Len(Succeeded("tasks"))
    /\ pc = "published" =>
          /\ returned = project_response
          /\ extract_project_id(project_response) # "unknown"
                => /\ Len(Sent("docs")) = Len(documents)
                   /\ Len(Sent("tasks")) = Len(tasks)
                   /\ documents # <<>> => "documents_created" \in DOMAIN project_response
                   /\ tasks # <<>> => "tasks_created" \in DOMAIN project_response

C29_Witness ==
    /\ pc = "published"
    /\ Len(documents) = 2
    /\ Len(tasks) = 2
    /\ Len(requests) = 5
    /\ requests[2].status = "http_error"
    /\ requests[3].status = "ok"
    /\ requests[4].status = "raise"
    /\ requests[5].status = "ok"
    /\ returned["documents_created"] = 1
    /\ returned["tasks_created"] = 1

\* C30: the start command reaches the orchestrator only when config.yaml
\* exists, the idea it hands over is not empty (not blank when it was
\* typed at the prompt) and the user confirmed; otherwise nothing of the
\* workflow runs.  "Success!" is printed only after run_ideation returned;
\* the process exits with status 0 when the user's interrupt ended the
\* workflow and with status 1, after "Error", when an exception did.
C30_StartGuardsAndExit ==
    /\ pc \notin CliPcs =>
          /\ cli.config
          /\ cli.confirm
          /\ idea_input # <<>>
          /\ idea_input = CliIdea
          /\ cli.option = <<>> => NonBlank(cli.prompt)
    /\ pc \in CliPcs =>
          /\ context = EmptyCtx
          /\ console = <<>>
          /\ calls = NoCalls
          /\ files = {}
          /\ requests = <<>>
          /\ returned = Nothing
          /\ pc # "cli" => exit_code = 0
    /\ \A i \in 1 .. Len(cli.out) :
          /\ cli.out[i] = "Success!" => (returned # Nothing /\ exit_code = 0)
          /\ cli.out[i] = "Error" => (error # Nothing /\ exit_code = 1 /\ returned = Nothing)
          /\ cli.out[i] = "Cancelled by user" => (exit_code = 0 /\ returned = Nothing)
    /\ pc = "cancelled" => exit_code = 0
    /\ pc = "failed" => (exit_code = 1 /\ error # Nothing)
    /\ pc = "succeeded" => (exit_code = 0 /\ returned # Nothing)
    /\ pc = "exited" => /\ Len(cli.out) = 2
                        /\ cli.out[2] \in {"Success!", "Error", "Cancelled by user"}
                        /\ (exit_code = 1) = (cli.out[2] = "Error")

C30_Witness ==
    /\ pc = "exited"
    /\ cli.option = <<>>
    /\ cli.prompt = <<"a">>
    /\ cli.out = <<"Your Idea", "Cancelled by user">>
    /\ exit_code = 0
    /\ context # EmptyCtx
====
